---- MODULE Spec2Model ----
(***************************************************************************)
(* A model of pyDMS.DecisionTreeSharpener (src/pyDMS/pyDMS.py): the        *)
(* constructor, trainSharpener, applySharpener and residualAnalysis, with  *)
(* the window partitioning and the sample selection they compute.          *)
(*                                                                         *)
(* Conventions.  The engine object is the function `self` from attribute   *)
(* names to values: an attribute that has not been assigned is not in      *)
(* DOMAIN self, and reading it is Python's AttributeError.  Python's None  *)
(* and a raster's NaN are the records None and NaN.  Coefficients of       *)
(* variation are integers (one unit = one step of CV); the homogeneity     *)
(* threshold is kept in hundredths of that unit, because the 80th          *)
(* percentile interpolates between two CV values.  A fitted regressor is   *)
(* the record of what it was fitted on; its prediction for an input value  *)
(* x is the record Predicted(regressor, x).                                *)
(***************************************************************************)
EXTENDS Integers, Sequences, FiniteSets, TLC

VARIABLES
    pc,        \* "new": no engine yet; "ready": constructed; "initFailed"
    self,      \* the engine's attributes
    init,      \* the constructor call: its arguments and how it ended
    files,     \* the scenes stored at the file paths given to the constructor
    train,     \* the latest trainSharpener call: its locals and how it ended
    applyLog,  \* the applySharpener calls since the latest trainSharpener
    resid,     \* the latest residualAnalysis call since the latest trainSharpener
    grid,      \* a grid handed to the window partitioning, and what it returned
    calc       \* the arguments of one call of a helper, and what it returned

vars == <<pc, self, init, files, train, applyLog, resid, grid, calc>>

-----------------------------------------------------------------------------
(* Bounds of the model *)

MaxFiles == 1      \* file pairs handed to the constructor: 0..MaxFiles
MaxDim == 2        \* a training scene has 1..MaxDim coarse rows and columns
MaxWindow == 1     \* movingWindowSize ranges over -1..MaxWindow
MaxApplies == 2    \* applySharpener calls, on the same inputs, after one trainSharpener
Scale == 2         \* fine pixels per coarse pixel, on each axis
FixedCv == 3       \* the positive cvHomogeneityThreshold a caller configures
MaxGrid == 5       \* grid sizes of the window-partitioning specification
MaxTile == 4       \* window sizes of the window-partitioning specification
MaxRows == 3       \* rasters handed to _doPredict on its own: up to MaxRows x MaxRows
MaxChunk == 5      \* chunk sizes handed to _doPredict on its own: 0..MaxChunk
MaxTarget == 3     \* training targets of the leaf regression: 0..MaxTarget
MaxRatio4 == 1     \* extrapolation ratios of the leaf regression, in quarters
MaxKelvin == 2     \* disaggregated values of the residual correction: 0..MaxKelvin
MaxResidual == 20  \* residuals of the residual correction: -MaxResidual..MaxResidual
MaxSamples == 4    \* rows of the training set of a _doFit call
MaxClusters == 2   \* clusters of the downsampling stage
MaxPairs == 2      \* file pairs of the sample-selection specification: 1..MaxPairs
LargeCv == 2000    \* a configured cvHomogeneityThreshold above the sentinel

-----------------------------------------------------------------------------
(* Values *)

None == [None |-> "None"]
NaN == [NaN |-> "NaN"]

Max(a, b) == IF a >= b THEN a ELSE b
Min(a, b) == IF a <= b THEN a ELSE b

\* obj.name = value, for an attribute that may be new
SetAttr(obj, name, value) ==
    [k \in DOMAIN obj \cup {name} |-> IF k = name THEN value ELSE obj[k]]

\* dict.pop(key), for a key the dict holds
Pop(dict, key) == [k \in DOMAIN dict \ {key} |-> dict[k]]

Methods == {"dt", "rf", "xgb", "gpr", "svr", "ann"}
BadMethods == {"xbg", "foo"}

-----------------------------------------------------------------------------
(* DecisionTreeSharpener.__init__ *)

QualityLists ==
    UNION {[1..n -> {"", "quality.tif"}] : n \in 0..(MaxFiles + 1)}

InitArgs ==
    [highResFiles : 0..MaxFiles,
     lowResFiles : 0..MaxFiles,
     lowResQualityFiles : QualityLists,
     cvHomogeneityThreshold : {0, FixedCv},
     movingWindowSize : (-1)..MaxWindow,
     disaggregatingTemperature : BOOLEAN,
     method : Methods \cup BadMethods,
     export_stats : BOOLEAN]

useQuality_LR(lowResQualityFiles) ==
    ~ (\/ Len(lowResQualityFiles) = 0
       \/ Len(lowResQualityFiles) = 1 /\ lowResQualityFiles[1] = "")

\* InitRaises without the check of the number of quality files
InitRaises_NoQualityCheck(a) == a.highResFiles # a.lowResFiles

\* the constructor raises IOError
InitRaises(a) ==
    \/ a.highResFiles # a.lowResFiles
    \/ /\ useQuality_LR(a.lowResQualityFiles)
       /\ Len(a.lowResQualityFiles) # a.lowResFiles

\* the attributes of a constructed engine
InitSelf(a) ==
    [highResFiles |-> a.highResFiles,
     lowResFiles |-> a.lowResFiles,
     lowResQualityFiles |-> a.lowResQualityFiles,
     useQuality_LR |-> useQuality_LR(a.lowResQualityFiles),
     cvHomogeneityThreshold |-> 100 * a.cvHomogeneityThreshold,
     autoAdjustCvThreshold |-> (a.cvHomogeneityThreshold <= 0),
     movingWindowSize |-> a.movingWindowSize,
     windowExtents |-> << >>,
     disaggregatingTemperature |-> a.disaggregatingTemperature,
     method |-> a.method,
     downsample |-> None,
     regressorOpt |-> << >>,
     export_stats |-> a.export_stats]

NoTrain ==
    [status |-> "never", windows |-> << >>, extents |-> << >>,
     goodData |-> << >>, thresholds |-> << >>, weight |-> << >>, fitted |-> << >>]

NoResid == [status |-> "never", doCorrection |-> FALSE, out |-> << >>]

-----------------------------------------------------------------------------
(* The training scenes: what gdal and pyDMSUtils hand to trainSharpener for *)
(* one pair of files.  A scene has R x C coarse pixels; its layout says,    *)
(* for each pixel, the quality flag, whether the coarse value and the       *)
(* aggregated fine means are NaN, and the coefficient of variation.         *)

CvSentinel == 1000
precentileThreshold == 80

Layouts == {"gradient", "uniform", "flagged", "corner"}

Scenes == [R : 1..MaxDim, C : {MaxDim}, layout : Layouts]

\* the scenes of n pairs of files: the pairs cover the same area
SceneLists(n) ==
    {scenes \in [1..n -> Scenes] :
        \A i, j \in 1..n : scenes[i].R = scenes[j].R /\ scenes[i].C = scenes[j].C}

\* the layouts of the sample-selection specification: the four above, and
\* "mixed" (the quality flag is bad on every other pixel), "undefined" (the
\* aggregated standard deviation of pixel (0, 0) is NaN while its means are
\* numbers) and "flat" (CVs of -1, 0 and 1)
SelectLayouts == Layouts \cup {"mixed", "undefined", "flat"}

\* np.in1d(subsetQualityMask, lowResGoodQualityFlags) at pixel (r, c)
QualityFlagGood(s, r, c) ==
    /\ s.layout # "flagged"
    /\ s.layout = "mixed" => (r + c) % 2 = 0

\* np.isnan(data_LR) at pixel (r, c)
DataNaN(s, r, c) == s.layout = "corner" /\ (r + c) % 2 = 1

\* np.any(np.isnan(resMean), -1) at pixel (r, c)
ResMeanNaN(s, r, c) == s.layout = "corner" /\ (r + c) % 2 = 0 /\ <<r, c>> # <<0, 0>>

\* np.sum(resStd/resMean, 2) / bands at pixel (r, c), where it is a number
RawCV(s, r, c) ==
    CASE s.layout = "uniform" -> 2
      [] s.layout = "corner" -> IF <<r, c>> = <<0, 0>> THEN 1 ELSE 2
      [] s.layout = "flat" -> ((r + c) % 3) - 1
      [] OTHER -> 1 + ((r + c) % 3)

\* np.isnan(resCV) at pixel (r, c): a mean or a standard deviation is NaN
CvNaN(s, r, c) ==
    \/ ResMeanNaN(s, r, c)
    \/ s.layout = "undefined" /\ <<r, c>> = <<0, 0>>

\* resCV after resCV[np.isnan(resCV)] = 1000
resCV(s, r, c) == IF CvNaN(s, r, c) THEN CvSentinel ELSE RawCV(s, r, c)

\* qualityPix when the quality mask is read but never applied
qualityPix_IgnoreMask(obj, s, r, c) == ~ DataNaN(s, r, c) /\ ~ ResMeanNaN(s, r, c)

\* qualityPix after the two logical_and steps
qualityPix(obj, s, r, c) ==
    /\ obj.useQuality_LR => QualityFlagGood(s, r, c)
    /\ ~ DataNaN(s, r, c)
    /\ ~ ResMeanNaN(s, r, c)

-----------------------------------------------------------------------------
(* trainSharpener: the window partitioning *)

\* the range bound under integer division, n // movingWindowSize
CeilRange_Floor(n, W) == n \div W

\* int(math.ceil(n / movingWindowSize)), for n >= 0 and movingWindowSize > 0
CeilRange(n, W) == (n + W - 1) \div W

\* int(max(k*movingWindowSize - movingWindowExtension, 0)), the extension
\* being movingWindowSize * 0.25
WindowStart(k, W) == Max((W * (4 * k - 1)) \div 4, 0)

\* the end of a sampling window when it is not clamped to the grid
WindowEnd_Unclamped(k, W, n) == (W * (4 * k + 5)) \div 4

\* int(min((k+1)*movingWindowSize + movingWindowExtension, n))
WindowEnd(k, W, n) == Min((W * (4 * k + 5)) \div 4, n)

SamplingWindow(y, x, R, C, W) ==
    <<WindowStart(y, W), WindowEnd(y, W, R), WindowStart(x, W), WindowEnd(x, W, C)>>

\* utils.pix2point([x, y], gt): pixel coordinates to projected coordinates
pix2point(pix, gt) == <<gt.x0 + pix[1] * gt.res, gt.y0 + pix[2] * gt.res>>

\* utils.point2pix(point, gt): projected coordinates to pixel coordinates
point2pix(point, gt) == <<(point[1] - gt.x0) \div gt.res, (point[2] - gt.y0) \div gt.res>>

\* the geotransform of a coarse scene and of the fine raster over it
gt_LR == [x0 |-> 0, y0 |-> 0, res |-> Scale]
gt_HR == [x0 |-> 0, y0 |-> 0, res |-> 1]

TileExtent(y, x, W) ==
    <<pix2point(<<x * W, y * W>>, gt_LR), pix2point(<<(x + 1) * W, (y + 1) * W>>, gt_LR)>>

\* the two nested loops over y and x, from tile (y, x) on
RECURSIVE TileLoop(_, _, _, _, _, _)
TileLoop(y, x, R, C, W, acc) ==
    IF y >= CeilRange(R, W) THEN acc
    ELSE IF x >= CeilRange(C, W) THEN TileLoop(y + 1, 0, R, C, W, acc)
    ELSE TileLoop(y, x + 1, R, C, W,
                  [windows |-> Append(acc.windows, SamplingWindow(y, x, R, C, W)),
                   extents |-> Append(acc.extents, TileExtent(y, x, W))])

\* Partition with the whole-image window put first instead of last
Partition_GlobalFirst(R, C, W) ==
    LET local == IF W > 0
                 THEN TileLoop(0, 0, R, C, W, [windows |-> << >>, extents |-> << >>])
                 ELSE [windows |-> << >>, extents |-> << >>]
    IN [windows |-> <<<<0, R, 0, C>>>> \o local.windows,
        extents |-> local.extents]

\* windows and extents as trainSharpener builds them for an R x C scene
Partition(R, C, W) ==
    LET local == IF W > 0
                 THEN TileLoop(0, 0, R, C, W, [windows |-> << >>, extents |-> << >>])
                 ELSE [windows |-> << >>, extents |-> << >>]
    IN [windows |-> Append(local.windows, <<0, R, 0, C>>),
        extents |-> local.extents]

-----------------------------------------------------------------------------
(* trainSharpener: the sample selection *)

\* the pixels of data[rows, cols] in the order boolean indexing visits them
WindowPixels(w) ==
    LET nrows == Max(w[2] - w[1], 0)
        ncols == Max(w[4] - w[3], 0)
    IN [k \in 1..(nrows * ncols) |->
            <<w[1] + ((k - 1) \div ncols), w[3] + ((k - 1) % ncols)>>]

\* the k-th smallest (k = 0, 1, ...) of a non-empty sequence of integers
KthSmallest(vals, k) ==
    CHOOSE v \in {vals[i] : i \in DOMAIN vals} :
        /\ Cardinality({i \in DOMAIN vals : vals[i] < v}) <= k
        /\ Cardinality({i \in DOMAIN vals : vals[i] <= v}) > k

\* 100 * np.percentile(vals, q): linear interpolation between the two
\* order statistics around position q/100 * (n - 1)
Percentile100(vals, q) ==
    LET n == Len(vals)
        lo == (q * (n - 1)) \div 100
        hi == Min(lo + 1, n - 1)
        a == KthSmallest(vals, lo)
        b == KthSmallest(vals, hi)
    IN 100 * a + (b - a) * ((q * (n - 1)) % 100)

\* the threshold when a window without eligible pixels keeps the one the
\* previous window left
WindowThreshold_KeepPrevious(obj, s, w, previous) ==
    IF obj.autoAdjustCvThreshold
    THEN LET g == SelectSeq(WindowPixels(w),
                            LAMBDA p : /\ qualityPix(obj, s, p[1], p[2])
                                       /\ resCV(s, p[1], p[2]) < CvSentinel
                                       /\ resCV(s, p[1], p[2]) > 0)
         IN IF Len(g) = 0 THEN previous
            ELSE Percentile100([i \in DOMAIN g |-> resCV(s, g[i][1], g[i][2])],
                               precentileThreshold)
    ELSE previous

\* self.cvHomogeneityThreshold (in hundredths) in force for window w: the one
\* left by the previous window unless the threshold is adjusted automatically
WindowThreshold(obj, s, w, previous) ==
    IF obj.autoAdjustCvThreshold
    THEN LET g == SelectSeq(WindowPixels(w),
                            LAMBDA p : /\ qualityPix(obj, s, p[1], p[2])
                                       /\ resCV(s, p[1], p[2]) < CvSentinel
                                       /\ resCV(s, p[1], p[2]) > 0)
         IN IF Len(g) = 0 THEN 0
            ELSE Percentile100([i \in DOMAIN g |-> resCV(s, g[i][1], g[i][2])],
                               precentileThreshold)
    ELSE previous

\* goodPix without the test resCVWindow > 0
goodPix_NoPositiveCv(obj, s, p, thr) ==
    /\ 100 * resCV(s, p[1], p[2]) < thr
    /\ qualityPix(obj, s, p[1], p[2])

\* goodPix when a CV equal to the threshold counts as homogeneous
goodPix_AtThreshold(obj, s, p, thr) ==
    /\ 100 * resCV(s, p[1], p[2]) <= thr
    /\ resCV(s, p[1], p[2]) > 0
    /\ qualityPix(obj, s, p[1], p[2])

\* goodPix at pixel p under threshold thr (in hundredths)
goodPix(obj, s, p, thr) ==
    /\ 100 * resCV(s, p[1], p[2]) < thr
    /\ resCV(s, p[1], p[2]) > 0
    /\ qualityPix(obj, s, p[1], p[2])

\* 1/x, kept as a fraction
Inverse(x) == [num |-> 1, den |-> x]

\* w = 1/resCVWindow[goodPix]: the weights of the good pixels of a window
WindowWeights(s, good) == [k \in DOMAIN good |-> Inverse(resCV(s, good[k][1], good[k][2]))]

\* one pass of the loop over the windows: window w under threshold thr, added
\* to what the earlier windows left in acc
SelectWindow(obj, s, w, thr, acc) ==
    [threshold |-> thr,
     thresholds |-> Append(acc.thresholds, thr),
     goodData |-> Append(acc.goodData,
                         SelectSeq(WindowPixels(w), LAMBDA p : goodPix(obj, s, p, thr))),
     weight |-> Append(acc.weight,
                       WindowWeights(s, SelectSeq(WindowPixels(w),
                                                  LAMBDA p : goodPix(obj, s, p, thr))))]

\* the loop over the windows of scene s, from window i on: the threshold in
\* force and the good pixels of every window
RECURSIVE SelectLoop(_, _, _, _, _)
SelectLoop(obj, s, windows, i, acc) ==
    IF i > Len(windows) THEN acc
    ELSE SelectLoop(obj, s, windows, i + 1,
                    SelectWindow(obj, s, windows[i],
                                 WindowThreshold(obj, s, windows[i], acc.threshold),
                                 acc))

\* np.size(goodData_LR) of a list of arrays: their common length times their
\* number when the lengths agree, else the number of arrays
NpSize(goodData) ==
    IF \A i, j \in DOMAIN goodData : Len(goodData[i]) = Len(goodData[j])
    THEN IF Len(goodData) = 0 THEN 0 ELSE Len(goodData) * Len(goodData[1])
    ELSE Len(goodData)

\* what one pass of the loop over the file pairs leaves: the engine with the
\* last threshold (and the statistics record), the windows and their samples
FileResult(obj, part, sel) ==
    [self |-> IF obj.export_stats
              THEN SetAttr([obj EXCEPT !.cvHomogeneityThreshold = sel.threshold],
                           "stats_dict", [N_train |-> NpSize(sel.goodData)])
              ELSE [obj EXCEPT !.cvHomogeneityThreshold = sel.threshold],
     windows |-> part.windows, extents |-> part.extents,
     thresholds |-> sel.thresholds, goodData |-> sel.goodData,
     weight |-> sel.weight]

\* the sample selection of one file pair over the windows of part
FileSelect(obj, s, part) ==
    FileResult(obj, part,
               SelectLoop(obj, s, part.windows, 1,
                          [threshold |-> obj.cvHomogeneityThreshold,
                           thresholds |-> << >>, goodData |-> << >>,
                           weight |-> << >>]))

\* the body of the loop over the file pairs, for the pair whose scene is s
FileStep(obj, s) == FileSelect(obj, s, Partition(s.R, s.C, obj.movingWindowSize))

\* the loop over the file pairs, from pair f on: every pass starts from the
\* engine the pass before left and replaces what that pass collected
RECURSIVE FileLoop(_, _, _, _)
RECURSIVE FileNext(_, _, _)
FileNext(scenes, f, step) == FileLoop(step.self, scenes, f + 1, step)

FileLoop(obj, scenes, f, last) ==
    IF f > Len(scenes) THEN last
    ELSE FileNext(scenes, f, FileStep(obj, scenes[f]))

-----------------------------------------------------------------------------
(* _doFit *)

TreeMethodsOfDoFit == {"dt", "rf", "xbg"}

\* self.regressorOpt after the first statement of _doFit
FitOptions(obj, local) ==
    IF obj.method \in TreeMethodsOfDoFit
    THEN SetAttr(SetAttr(obj.regressorOpt, "max_leaf_nodes", IF local THEN 10 ELSE 30),
                 "min_samples_leaf", 10)
    ELSE obj.regressorOpt

\* the regressor a backend fits, as the record of what it was given
Regressor(method, opt, samples, weighted) ==
    [method |-> method, opt |-> opt, samples |-> samples, weighted |-> weighted]

\* _doFit: the engine afterwards, whether it raised, and the dictionary returned
doFit(obj, samples, local) ==
    LET opt == FitOptions(obj, local)
        obj1 == [obj EXCEPT !.regressorOpt = opt]
        m == obj.method
    IN CASE m \in {"dt", "rf"} ->
              [self |-> obj1, raises |-> FALSE,
               model |-> [reg |-> Regressor(m, opt, samples, TRUE),
                          HR_scaler |-> None, LR_scaler |-> None]]
         [] m = "xgb" ->
              [self |-> obj1, raises |-> FALSE,
               model |-> [reg |-> Regressor(m, << >>, samples, TRUE),
                          HR_scaler |-> None, LR_scaler |-> None]]
         [] m = "gpr" ->
              [self |-> obj1, raises |-> FALSE,
               model |-> [reg |-> Regressor(m, opt, samples, FALSE),
                          HR_scaler |-> [StandardScaler |-> "HR"], LR_scaler |-> None]]
         [] m = "svr" ->
              [self |-> obj1, raises |-> FALSE,
               model |-> [reg |-> Regressor(m, opt, samples, TRUE),
                          HR_scaler |-> [StandardScaler |-> "HR"],
                          LR_scaler |-> [StandardScaler |-> "LR"]]]
         [] m = "ann" ->
              [self |-> obj1, raises |-> FALSE,
               model |-> [reg |-> Regressor(m, opt, samples, FALSE),
                          HR_scaler |-> [StandardScaler |-> "HR"],
                          LR_scaler |-> [StandardScaler |-> "LR"]]]
         [] OTHER -> [self |-> obj1, raises |-> TRUE, model |-> None]

\* the calls of _doFit a loop made, with the call for window i and its local
\* flag put before those of the rest of the loop
AfterFit(i, local, rest) ==
    [rest EXCEPT !.fitted = <<[window |-> i, local |-> local]>> \o @]

\* the fitting loop when an empty window ends it (break for continue)
RECURSIVE FitLoop_BreakOnEmpty(_, _, _)
FitLoop_BreakOnEmpty(obj, goodData, i) ==
    IF i > Len(goodData) THEN [self |-> obj, status |-> "returned", fitted |-> << >>]
    ELSE IF Len(goodData[i]) = 0 THEN [self |-> obj, status |-> "returned", fitted |-> << >>]
    ELSE LET fit == doFit(obj, goodData[i], i < Len(goodData))
         IN IF fit.raises
            THEN [self |-> fit.self, status |-> "TypeError",
                  fitted |-> <<[window |-> i, local |-> i < Len(goodData)]>>]
            ELSE AfterFit(i, i < Len(goodData),
                          FitLoop_BreakOnEmpty([fit.self EXCEPT !.reg[i] = fit.model],
                                               goodData, i + 1))

\* the fitting loop when the first window is the one fitted as non-local
RECURSIVE FitLoop_FirstGlobal(_, _, _)
FitLoop_FirstGlobal(obj, goodData, i) ==
    IF i > Len(goodData) THEN [self |-> obj, status |-> "returned", fitted |-> << >>]
    ELSE IF Len(goodData[i]) = 0 THEN FitLoop_FirstGlobal(obj, goodData, i + 1)
    ELSE LET fit == doFit(obj, goodData[i], i > 1)
         IN IF fit.raises
            THEN [self |-> fit.self, status |-> "TypeError",
                  fitted |-> <<[window |-> i, local |-> i > 1]>>]
            ELSE AfterFit(i, i > 1,
                          FitLoop_FirstGlobal([fit.self EXCEPT !.reg[i] = fit.model],
                                              goodData, i + 1))

\* the loop that fits the windows, from window i on
RECURSIVE FitLoop(_, _, _)
FitLoop(obj, goodData, i) ==
    IF i > Len(goodData) THEN [self |-> obj, status |-> "returned", fitted |-> << >>]
    ELSE IF Len(goodData[i]) = 0 THEN FitLoop(obj, goodData, i + 1)
    ELSE LET fit == doFit(obj, goodData[i], i < Len(goodData))
         IN IF fit.raises
            THEN [self |-> fit.self, status |-> "TypeError",
                  fitted |-> <<[window |-> i, local |-> i < Len(goodData)]>>]
            ELSE AfterFit(i, i < Len(goodData),
                          FitLoop([fit.self EXCEPT !.reg[i] = fit.model], goodData, i + 1))

-----------------------------------------------------------------------------
(* trainSharpener *)

\* what trainSharpener leaves once the fitting loop ended as fits
TrainResult(last, fits) ==
    [self |-> fits.self,
     train |-> [status |-> fits.status, windows |-> last.windows,
                extents |-> last.extents, goodData |-> last.goodData,
                thresholds |-> last.thresholds, weight |-> last.weight,
                fitted |-> fits.fitted]]

\* the statements after the loop over the file pairs: self.windowExtents,
\* self.reg and the fitting loop
FitStage(last) ==
    TrainResult(last,
                FitLoop(SetAttr([last.self EXCEPT !.windowExtents = last.extents],
                                "reg", [i \in 1..Len(last.windows) |-> None]),
                        last.goodData, 1))

trainSharpener(obj, scenes) ==
    IF Len(scenes) = 0
    THEN \* extents is never bound: the statement after the loop raises
         [self |-> obj,
          train |-> [status |-> "NameError", windows |-> << >>, extents |-> << >>,
                     goodData |-> << >>, thresholds |-> << >>, weight |-> << >>,
                     fitted |-> << >>]]
    ELSE FitStage(FileLoop(obj, scenes, 1, None))

Train ==
    /\ pc = "ready"
    /\ LET t == trainSharpener(self, files)
       IN /\ self' = t.self
          /\ train' = t.train
    /\ applyLog' = << >>
    /\ resid' = NoResid
    /\ UNCHANGED <<pc, init, files, grid, calc>>

-----------------------------------------------------------------------------
(* _doPredict *)

\* the first three statements of _doPredict on the stored dictionary: the
\* dictionary afterwards and whether a pop raised KeyError
doPredict(model) ==
    IF "HR_scaler" \notin DOMAIN model
    THEN [raises |-> TRUE, model |-> model]
    ELSE IF "LR_scaler" \notin DOMAIN Pop(model, "HR_scaler")
    THEN [raises |-> TRUE, model |-> Pop(model, "HR_scaler")]
    ELSE [raises |-> FALSE, model |-> Pop(Pop(model, "HR_scaler"), "LR_scaler")]

\* the value the model of window i predicts for the input value x
Predicted(i, x) == [window |-> i, x |-> x]

\* hr_scaler.transform and lr_scaler.inverse_transform on one value; a
\* scaler that is None is skipped
Transform(scaler, x) == IF scaler = None THEN x ELSE [scaler |-> scaler, of |-> x]

\* n_chunks = ceil(n_pixels / chunk_size)
NumChunks(n_pixels, chunk_size) == (n_pixels + chunk_size - 1) \div chunk_size

\* the chunk ranges when a chunk ends where the one after the next starts
ChunkRange_Overrun(chunk, chunk_size, n_pixels) ==
    <<chunk * chunk_size, Min((chunk + 2) * chunk_size, n_pixels)>>

\* <<ini, end>> of chunk number chunk (0, 1, ...)
ChunkRange(chunk, chunk_size, n_pixels) ==
    <<chunk * chunk_size, Min((chunk + 1) * chunk_size, n_pixels)>>

\* the loop over the chunks, from chunk number chunk on: outData starts as
\* np.empty (no position written) and records, for every position, the
\* value predicted for it and the chunks that wrote it
RECURSIVE ChunkLoop(_, _, _, _, _)
ChunkLoop(reg, samples, chunk_size, chunk, outData) ==
    IF chunk >= NumChunks(Len(samples), chunk_size) THEN outData
    ELSE ChunkLoop(reg, samples, chunk_size, chunk + 1,
                   [k \in DOMAIN outData |->
                       IF /\ ChunkRange(chunk, chunk_size, Len(samples))[1] <= k - 1
                          /\ k - 1 < ChunkRange(chunk, chunk_size, Len(samples))[2]
                       THEN [value |-> Predicted(reg, samples[k]),
                             writers |-> Append(outData[k].writers, chunk)]
                       ELSE outData[k]])

\* reg.predict on the reshaped input: by chunks when chunk_size is truthy
PredictSamples(reg, samples, chunk_size) ==
    IF chunk_size # 0
    THEN ChunkLoop(reg, samples, chunk_size, 0,
                   [k \in DOMAIN samples |-> [value |-> "empty", writers |-> << >>]])
    ELSE [k \in DOMAIN samples |-> [value |-> Predicted(reg, samples[k]), writers |-> <<0>>]]

\* _doPredict on a raster of rows x cols pixels: the input reshaped to a
\* list of samples and scaled, the predictions, scaled back and reshaped
doPredictRaster(inData, rows, cols, model, chunk_size) ==
    LET samples == [k \in 1..(rows * cols) |->
                       Transform(model.HR_scaler,
                                 inData[<<(k - 1) \div cols, (k - 1) % cols>>])]
        outData == PredictSamples(model.reg, samples, chunk_size)
    IN [out |-> [q \in (0..(rows - 1)) \X (0..(cols - 1)) |->
                    Transform(model.LR_scaler, outData[q[1] * cols + q[2] + 1].value)],
        writers |-> [k \in DOMAIN outData |-> outData[k].writers]]

-----------------------------------------------------------------------------
(* applySharpener *)

\* the fine raster applySharpener opens: the fine image over the area of the
\* training scenes, whose pixel (0, 0) is no-data in one band
HighResFile ==
    IF Len(files) = 0
    THEN [ysize |-> Scale, xsize |-> Scale]
    ELSE [ysize |-> Scale * files[1].R, xsize |-> Scale * files[1].C]

RasterPixels(hr) == (0..(hr.ysize - 1)) \X (0..(hr.xsize - 1))

\* np.any(np.isnan(inData), -1) at pixel p = <<row, column>>
nanInd(p) == p = <<0, 0>>

\* inData at pixel p after inData[nanInd] = 0
inData(p) == IF nanInd(p) THEN 0 ELSE 1 + ((p[1] + p[2]) % 2)

\* the rectangle of a window extent when it is the whole fine raster
ExtentRect_WholeRaster(extent, hr) == <<0, hr.ysize, 0, hr.xsize>>

\* [minY, maxY, minX, maxX] of a window extent on the fine raster
ExtentRect(extent, hr) ==
    LET ul == point2pix(extent[1], gt_HR)
        lr == point2pix(extent[2], gt_HR)
    IN <<Max(ul[2], 0), Min(lr[2], hr.ysize), Max(ul[1], 0), Min(lr[1], hr.xsize)>>

InRect(p, rect) ==
    /\ rect[1] <= p[1] /\ p[1] < rect[2]
    /\ rect[3] <= p[2] /\ p[2] < rect[4]

\* the loop over self.windowExtents, from extent i on
RECURSIVE WindowLoop(_, _, _, _)
WindowLoop(obj, hr, i, outWindowData) ==
    IF i > Len(obj.windowExtents)
    THEN [self |-> obj, status |-> "returned", outWindowData |-> outWindowData]
    ELSE IF "reg" \notin DOMAIN obj
    THEN [self |-> obj, status |-> "AttributeError", outWindowData |-> outWindowData]
    ELSE IF obj.reg[i] = None
    THEN WindowLoop(obj, hr, i + 1, outWindowData)
    ELSE LET p == doPredict(obj.reg[i])
             obj1 == [obj EXCEPT !.reg[i] = p.model]
             rect == ExtentRect(obj.windowExtents[i], hr)
         IN IF p.raises
            THEN [self |-> obj1, status |-> "KeyError", outWindowData |-> outWindowData]
            ELSE WindowLoop(obj1, hr, i + 1,
                            [q \in RasterPixels(hr) |->
                                IF InRect(q, rect) THEN Predicted(i, inData(q))
                                ELSE outWindowData[q]])

\* the residual raster _calculateResidual returns for a downscaled raster, at
\* fine pixel q: NaN where the downscaled raster is NaN, else the smoothed
\* difference to the coarse image, which may be zero
calculateResidual(downscaled, kind, q) ==
    IF downscaled[q] = NaN THEN NaN
    ELSE IF kind = "windowed" THEN [residual |-> (q[1] + 2 * q[2] + 1) % 3]
    ELSE [residual |-> (2 * q[1] + q[2] + 1) % 3]

\* ww = (1/windowedResidual)**2/((1/windowedResidual)**2 + (1/fullResidual)**2)
\* as a fraction; 1/0 is inf, and inf/inf is NaN
WindowedWeight(windowedResidual, fullResidual) ==
    IF windowedResidual = NaN \/ fullResidual = NaN THEN NaN
    ELSE IF windowedResidual.residual = 0 THEN NaN
    ELSE IF fullResidual.residual = 0 THEN [num |-> 0, den |-> 1]
    ELSE [num |-> fullResidual.residual * fullResidual.residual,
          den |-> fullResidual.residual * fullResidual.residual
                    + windowedResidual.residual * windowedResidual.residual]

\* fw = 1 - ww
FullWeight(ww) == IF ww = NaN THEN NaN ELSE [num |-> ww.den - ww.num, den |-> ww.den]

\* the blend when a pixel without a local value takes the global one
Blend_GlobalWhereUncovered(local, ww, full, fw) ==
    IF local = NaN THEN full
    ELSE IF full = NaN \/ ww = NaN \/ fw = NaN THEN NaN
    ELSE [windowed |-> local, ww |-> ww, full |-> full, fw |-> fw]

\* outWindowData*ww + outFullData*fw at one pixel
Blend(local, ww, full, fw) ==
    IF local = NaN \/ full = NaN \/ ww = NaN \/ fw = NaN THEN NaN
    ELSE [windowed |-> local, ww |-> ww, full |-> full, fw |-> fw]

\* the blended raster at pixel q
BlendAt(outWindowData, outFullData, q) ==
    Blend(outWindowData[q],
          WindowedWeight(calculateResidual(outWindowData, "windowed", q),
                         calculateResidual(outFullData, "full", q)),
          outFullData[q],
          FullWeight(WindowedWeight(calculateResidual(outWindowData, "windowed", q),
                                    calculateResidual(outFullData, "full", q))))

\* the combination without its first case (no fall back on the whole image)
Combine_NoFallback(outWindowData, outFullData, lowResGiven, hr) ==
    [q \in RasterPixels(hr) |->
        IF lowResGiven THEN BlendAt(outWindowData, outFullData, q)
        ELSE outWindowData[q]]

\* the combination when the coarse image is looked at before the coverage
Combine_ReferenceFirst(outWindowData, outFullData, lowResGiven, hr) ==
    [q \in RasterPixels(hr) |->
        IF lowResGiven THEN BlendAt(outWindowData, outFullData, q)
        ELSE IF \A r \in RasterPixels(hr) : outWindowData[r] = NaN
        THEN outFullData[q]
        ELSE outWindowData[q]]

\* outData: the combination of the windowed and the whole-image regressions
Combine(outWindowData, outFullData, lowResGiven, hr) ==
    [q \in RasterPixels(hr) |->
        IF \A r \in RasterPixels(hr) : outWindowData[r] = NaN
        THEN outFullData[q]
        ELSE IF lowResGiven
        THEN BlendAt(outWindowData, outFullData, q)
        ELSE outWindowData[q]]

\* the output when the invalid pixels keep what was predicted for them
FixNaNs_Skip(outData, hr) == outData

\* outData[nanInd] = np.nan, with nanInd = np.any(nanInd, -1)
FixNaNs(outData, hr) ==
    [q \in RasterPixels(hr) |-> IF nanInd(q) THEN NaN ELSE outData[q]]

\* applySharpener: the engine afterwards, how the call ended, the raster
applySharpener(obj, hr, lowResGiven) ==
    LET loop == WindowLoop(obj, hr, 1, [q \in RasterPixels(hr) |-> NaN])
        obj1 == loop.self
        last == Len(obj1.reg)
        p == doPredict(obj1.reg[last])
        outFullData == [q \in RasterPixels(hr) |->
                           IF obj1.reg[last] = None THEN NaN
                           ELSE Predicted(last, inData(q))]
        outData == Combine(loop.outWindowData, outFullData, lowResGiven, hr)
    IN CASE loop.status # "returned" ->
              [self |-> obj1, status |-> loop.status, outImage |-> << >>,
               outWindowData |-> << >>, outFullData |-> << >>]
         [] "reg" \notin DOMAIN obj1 ->
              [self |-> obj1, status |-> "AttributeError", outImage |-> << >>,
               outWindowData |-> << >>, outFullData |-> << >>]
         [] obj1.reg[last] # None /\ p.raises ->
              [self |-> [obj1 EXCEPT !.reg[last] = p.model], status |-> "KeyError",
               outImage |-> << >>, outWindowData |-> << >>, outFullData |-> << >>]
         [] OTHER ->
              [self |-> IF obj1.reg[last] = None THEN obj1
                        ELSE [obj1 EXCEPT !.reg[last] = p.model],
               status |-> "returned",
               outWindowData |-> loop.outWindowData,
               outFullData |-> outFullData,
               outImage |-> FixNaNs(outData, hr)]

Apply(lowResGiven) ==
    /\ pc = "ready"
    /\ Len(applyLog) < MaxApplies
    /\ applyLog # << >> => lowResGiven = applyLog[1].lowResGiven
    /\ LET a == applySharpener(self, HighResFile, lowResGiven)
       IN /\ self' = a.self
          /\ applyLog' = Append(applyLog,
                                [lowResGiven |-> lowResGiven,
                                 highResFile |-> HighResFile,
                                 regBefore |-> IF "reg" \in DOMAIN self
                                               THEN self.reg ELSE << >>,
                                 status |-> a.status,
                                 outWindowData |-> a.outWindowData,
                                 outFullData |-> a.outFullData,
                                 outImage |-> a.outImage])
    /\ UNCHANGED <<pc, init, files, train, resid, grid, calc>>

-----------------------------------------------------------------------------
(* residualAnalysis *)

\* residualAnalysis when the statistics record exists from construction on
residualAnalysis_StatsFromInit(obj, doCorrection) ==
    [self |-> obj, status |-> "returned",
     out |-> <<[residual |-> "residual_LR"],
               IF doCorrection THEN [corrected |-> "residual_HR + scene_HR"] ELSE None>>]

\* residualAnalysis: the engine afterwards, how the call ended, the pair
\* (residualImage, correctedImage) it returns
residualAnalysis(obj, doCorrection) ==
    LET corrected ==
            IF ~ doCorrection THEN None
            ELSE IF obj.disaggregatingTemperature
            THEN [corrected |-> "(residual_HR + scene_HR**4)**0.25"]
            ELSE [corrected |-> "residual_HR + scene_HR"]
    IN IF obj.export_stats /\ "stats_dict" \notin DOMAIN obj
       THEN [self |-> obj, status |-> "AttributeError", out |-> << >>]
       ELSE [self |-> IF obj.export_stats
                      THEN [obj EXCEPT !.stats_dict =
                               SetAttr(SetAttr(SetAttr(@, "N_test", "valid"),
                                               "bias", "bias"), "RMSD", "rmsd")]
                      ELSE obj,
             status |-> "returned",
             out |-> <<[residual |-> "residual_LR"], corrected>>]

ResidualAnalysis(doCorrection) ==
    /\ pc = "ready"
    /\ LET r == residualAnalysis(self, doCorrection)
       IN /\ self' = r.self
          /\ resid' = [status |-> r.status, doCorrection |-> doCorrection,
                       out |-> r.out]
    /\ UNCHANGED <<pc, init, files, train, applyLog, grid, calc>>

-----------------------------------------------------------------------------
(* The constructor call *)

\* the constructor runs once, on the engine that does not exist yet
ConstructInputs ==
    IF pc = "new"
    THEN {a \in InitArgs : ~ a.export_stats /\ ~ a.disaggregatingTemperature}
    ELSE {}

\* the engines whose residual analysis is followed: every combination of
\* export_stats and disaggregatingTemperature, without moving windows
ResidualInputs ==
    IF pc = "new"
    THEN {a \in InitArgs : a.method \in {"dt", "gpr", "foo"} /\ a.movingWindowSize = 0}
    ELSE {}

ConstructOn(a, sceneLists) ==
    /\ pc = "new"
    /\ init' = [highResFiles |-> a.highResFiles,
                lowResFiles |-> a.lowResFiles,
                lowResQualityFiles |-> a.lowResQualityFiles,
                status |-> IF InitRaises(a) THEN "IOError" ELSE "returned"]
    /\ IF InitRaises(a)
       THEN /\ pc' = "initFailed"
            /\ self' = self
            /\ files' = files
       ELSE /\ pc' = "ready"
            /\ self' = InitSelf(a)
            /\ files' \in sceneLists
    /\ UNCHANGED <<train, applyLog, resid, grid, calc>>

\* the constructor call on file pairs whose scenes are among Scenes
Construct(a) == ConstructOn(a, SceneLists(a.lowResFiles))

\* the engines whose sample selection is followed: one to MaxPairs file
\* pairs, with and without quality files, under an automatic, a small and a
\* large threshold
SelectInputs ==
    IF pc = "new"
    THEN {a \in [highResFiles : 1..MaxPairs,
                 lowResFiles : 1..MaxPairs,
                 lowResQualityFiles : {[i \in 1..n |-> "quality.tif"] : n \in 0..MaxPairs},
                 cvHomogeneityThreshold : {0, FixedCv, LargeCv},
                 movingWindowSize : 0..MaxWindow,
                 disaggregatingTemperature : {FALSE},
                 method : {"dt"},
                 export_stats : {FALSE}] : ~ InitRaises(a)}
    ELSE {}

\* the scenes of n file pairs over the same area, in every layout
SelectSceneLists(n) ==
    {scenes \in [1..n -> [R : 1..MaxDim, C : {MaxDim}, layout : SelectLayouts]] :
        \A i, j \in 1..n : scenes[i].R = scenes[j].R}


NoGrid == [R |-> 0, C |-> 0, W |-> 0, done |-> FALSE, windows |-> << >>, extents |-> << >>]

NoEngine ==
    /\ pc = "new"
    /\ self = << >>
    /\ init = [highResFiles |-> 0, lowResFiles |-> 0, lowResQualityFiles |-> << >>,
               status |-> "never"]
    /\ files = << >>
    /\ train = NoTrain
    /\ applyLog = << >>
    /\ resid = NoResid

NoCalc == [done |-> FALSE]

Init == NoEngine /\ grid = NoGrid /\ calc = NoCalc

Next ==
    \/ \E a \in ConstructInputs : Construct(a)
    \/ Train
    \/ \E lowResGiven \in BOOLEAN : Apply(lowResGiven)

Spec == Init /\ [][Next]_vars

NextResidual ==
    \/ \E a \in ResidualInputs : Construct(a)
    \/ Train
    \/ \E doCorrection \in BOOLEAN : ResidualAnalysis(doCorrection)

SpecResidual == Init /\ [][NextResidual]_vars

\* The sample selection of trainSharpener, over the richer scenes.
NextSelect ==
    \/ \E a \in SelectInputs : ConstructOn(a, SelectSceneLists(a.lowResFiles))
    \/ Train

SpecSelect == Init /\ [][NextSelect]_vars

-----------------------------------------------------------------------------
(* DecisionTreeRegressorWithLinearLeafRegression.  A fitted tree is given   *)
(* by its leaves: the value the tree predicts in the leaf (the mean of the  *)
(* leaf's training targets) and the extrema of those targets.  Values are   *)
(* integers; the refined predictions and the extrapolation ratio are kept   *)
(* in quarters.                                                             *)

\* the leaves a fit can produce: the value is the mean of the targets, so
\* it lies strictly between their extrema unless all targets are equal
Leaves ==
    {l \in [value : 0..MaxTarget, min : 0..MaxTarget, max : 0..MaxTarget] :
        \/ l.min = l.value /\ l.value = l.max
        \/ l.min < l.value /\ l.value < l.max}

\* np.unique(predictedValues): the distinct leaf values, in increasing order
RECURSIVE SortedSeq(_)
SortedSeq(S) ==
    IF S = {} THEN << >>
    ELSE LET m == CHOOSE x \in S : \A y \in S : x <= y
         IN <<m>> \o SortedSeq(S \ {m})

leafValues(leaves) == SortedSeq({leaves[i].value : i \in DOMAIN leaves})

\* fit: self.leafParameters[value], from the training samples whose tree
\* prediction equals value
leafParameters(leaves, value) ==
    [linearRegression |-> value,
     max |-> CHOOSE m \in {leaves[i].max : i \in {j \in DOMAIN leaves : leaves[j].value = value}} :
                \A i \in DOMAIN leaves : leaves[i].value = value => leaves[i].max <= m,
     min |-> CHOOSE m \in {leaves[i].min : i \in {j \in DOMAIN leaves : leaves[j].value = value}} :
                \A i \in DOMAIN leaves : leaves[i].value = value => leaves[i].min >= m]

\* np.minimum(np.maximum(y, min - extrapolationRange), max + extrapolationRange),
\* in quarters
LimitExtrapolation(y4, params, ratio4) ==
    Min(Max(y4, 4 * params.min - ratio4 * (params.max - params.min)),
        4 * params.max + ratio4 * (params.max - params.min))

\* the keys of self.leafParameters after a fit on leaves, in the order of
\* the dictionary: __init__ alone empties it, so the keys an earlier fit of
\* the same object stored (previous) stay, before the keys that are new
storedKeys(previous, leaves) ==
    leafValues(previous)
        \o SortedSeq({leaves[i].value : i \in DOMAIN leaves}
                        \ {previous[i].value : i \in DOMAIN previous})

\* self.leafParameters[value] after that fit: the entry of the fit on leaves
\* where it has one, else the entry the earlier fit left
storedParameters(previous, leaves, value) ==
    IF \E i \in DOMAIN leaves : leaves[i].value = value
    THEN leafParameters(leaves, value)
    ELSE leafParameters(previous, value)

\* the body of the loop of predict for a key that matches: the value is
\* replaced and the key noted
Refined(out, key, y4) == [y4 |-> y4, applied |-> Append(out.applied, key)]

\* predict: the loop over self.leafParameters.keys(), from key number k on,
\* for one sample whose value so far is out.y4 (in quarters); linear[k] is
\* what the linear regression stored under key number k predicts for the
\* sample, out.applied the keys that matched so far
RECURSIVE RefineLoop(_, _, _, _, _, _)
RefineLoop(previous, leaves, linear, ratio4, k, out) ==
    IF k > Len(storedKeys(previous, leaves)) THEN out
    ELSE IF out.y4 = 4 * storedKeys(previous, leaves)[k]
    THEN RefineLoop(previous, leaves, linear, ratio4, k + 1,
                    Refined(out, storedKeys(previous, leaves)[k],
                            LimitExtrapolation(
                                linear[k],
                                storedParameters(previous, leaves,
                                                 storedKeys(previous, leaves)[k]),
                                ratio4)))
    ELSE RefineLoop(previous, leaves, linear, ratio4, k + 1, out)

\* predict for one sample the tree routes to leaf number leaf
predict(previous, leaves, linear, ratio4, leaf) ==
    RefineLoop(previous, leaves, linear, ratio4, 1,
               [y4 |-> 4 * leaves[leaf].value, applied |-> << >>])

\* previous: the leaves of an earlier fit of the same object, if there was one
LeafInputs ==
    [previous : {<< >>} \cup {<<l>> : l \in Leaves},
     leaves : [1..2 -> Leaves], leaf : 1..2, ratio4 : 0..MaxRatio4,
     linear : [1..3 -> {4 * v : v \in 0..MaxTarget}]]

LeafPredict ==
    /\ "leaves" \in DOMAIN calc
    /\ ~ calc.done
    /\ calc' = [calc EXCEPT
                   !.done = TRUE,
                   !.keys = storedKeys(calc.previous, calc.leaves),
                   !.y4 = predict(calc.previous, calc.leaves, calc.linear,
                                  calc.ratio4, calc.leaf).y4,
                   !.applied = predict(calc.previous, calc.leaves, calc.linear,
                                       calc.ratio4, calc.leaf).applied]
    /\ UNCHANGED <<pc, self, init, files, train, applyLog, resid, grid>>

InitLeaf ==
    /\ NoEngine
    /\ grid = NoGrid
    /\ \E a \in LeafInputs :
          calc = [done |-> FALSE, previous |-> a.previous, leaves |-> a.leaves,
                  leaf |-> a.leaf, ratio4 |-> a.ratio4, linear |-> a.linear,
                  keys |-> << >>, y4 |-> 0, applied |-> << >>]

NextLeaf == LeafPredict

SpecLeaf == InitLeaf /\ [][NextLeaf]_vars

-----------------------------------------------------------------------------
(* _doFit on its own, with the downsampling stage.  The training set has    *)
(* rows 1..n; row j holds the features x_array[j], the target y_array[j]    *)
(* and the weight w[j].  What KMeans and the random generator return is an  *)
(* input: labels[j] is the cluster of row j.                                *)

\* the arrays _doFit is given: row j is tagged with j in each of them
FeatureRows(n) == [j \in 1..n |-> [x |-> j]]
TargetRows(n) == [j \in 1..n |-> [y |-> j]]
WeightRows(n) == [j \in 1..n |-> Inverse(j)]

\* ids = np.argwhere(clusters.labels_ == i)
ClusterIds(labels, i) == {j \in DOMAIN labels : labels[j] = i}

\* n_min = np.min(np.unique(clusters.labels_, return_counts=True)[1]): the
\* size of the smallest of the clusters that have a row
ClusterMin(labels) ==
    CHOOSE m \in {Cardinality(ClusterIds(labels, labels[j])) : j \in DOMAIN labels} :
        \A j \in DOMAIN labels : m <= Cardinality(ClusterIds(labels, labels[j]))

\* np.random.choice(ids, size=n_min, replace=False): the possible draws
Draws(ids, n_min) ==
    {d \in [1..n_min -> ids] : \A a, b \in 1..n_min : a # b => d[a] # d[b]}

\* the row indices the loop over the clusters i..n_clusters-1 can collect
RECURSIVE SampledRows(_, _, _, _)
SampledRows(labels, n_clusters, n_min, i) ==
    IF i >= n_clusters THEN {<< >>}
    ELSE {d \o rest : d \in Draws(ClusterIds(labels, i), n_min),
                      rest \in SampledRows(labels, n_clusters, n_min, i + 1)}

\* the rows of array at the indices sampled
Take(array, sampled) == [r \in DOMAIN sampled |-> array[sampled[r]]]

\* the downsampling when the weights are not taken at the sampled indices
Downsampled_WeightsInOrder(x_array, y_array, w, sampled) ==
    [status |-> "returned",
     sampled_x |-> Take(x_array, sampled), sampled_y |-> Take(y_array, sampled),
     sampled_w |-> SubSeq(w, 1, Len(sampled))]

\* what downsample_dataset_aboulalebi returns for the indices sampled
Downsampled(x_array, y_array, w, sampled) ==
    [status |-> "returned",
     sampled_x |-> Take(x_array, sampled), sampled_y |-> Take(y_array, sampled),
     sampled_w |-> Take(w, sampled)]

\* downsample_dataset_aboulalebi: the outcomes it can have.  KMeans raises
\* for fewer rows than clusters, np.random.choice for a cluster without rows
downsample_dataset_aboulalebi(x_array, y_array, w, labels, n_clusters) ==
    IF Len(y_array) < n_clusters
         \/ \E i \in 0..(n_clusters - 1) : ClusterIds(labels, i) = {}
    THEN {[status |-> "ValueError", sampled_x |-> << >>, sampled_y |-> << >>,
           sampled_w |-> << >>]}
    ELSE {Downsampled(x_array, y_array, w, sampled) :
             sampled \in SampledRows(labels, n_clusters, ClusterMin(labels), 0)}

\* self.downsample and not local; a number k is kept as [n_clusters |-> k]
DownsampleStage(obj, local) ==
    obj.downsample # None /\ obj.downsample # [n_clusters |-> 0] /\ ~ local

\* self.stats_dict["N_train_subsampled"] = int(np.size(goodData_LR))
SubsampledStats(obj, d) ==
    IF obj.export_stats
    THEN [obj EXCEPT !.stats_dict = SetAttr(@, "N_train_subsampled", Len(d.sampled_y))]
    ELSE obj

\* _doFit after max_leaf_nodes and min_samples_leaf are set: its outcomes,
\* with the arrays that reached the regressor
FitOutcomes(obj, n, labels, local) ==
    IF DownsampleStage(obj, local)
    THEN {[downsampled |-> TRUE, status |-> d.status,
           goodData_HR |-> d.sampled_x, goodData_LR |-> d.sampled_y, weight |-> d.sampled_w,
           fit |-> IF d.status = "returned"
                   THEN doFit(SubsampledStats(obj, d), d.sampled_y, local)
                   ELSE [self |-> [obj EXCEPT !.regressorOpt = FitOptions(obj, local)],
                         raises |-> TRUE, model |-> None]] :
             d \in downsample_dataset_aboulalebi(FeatureRows(n), TargetRows(n),
                                                 WeightRows(n), labels,
                                                 obj.downsample.n_clusters)}
    ELSE {[downsampled |-> FALSE, status |-> "returned",
           goodData_HR |-> FeatureRows(n), goodData_LR |-> TargetRows(n),
           weight |-> WeightRows(n),
           fit |-> doFit(obj, TargetRows(n), local)]}

FitInputs ==
    {a \in [n : 1..MaxSamples,
            downsample : {None} \cup {[n_clusters |-> k] : k \in 0..MaxClusters},
            local : BOOLEAN, export_stats : BOOLEAN, method : {"dt", "gpr"},
            labels : UNION {[1..n -> 0..(MaxClusters - 1)] : n \in 1..MaxSamples}] :
        /\ DOMAIN a.labels = 1..a.n
        /\ \A j \in 1..a.n :
              a.labels[j] < (IF a.downsample \in {None, [n_clusters |-> 0]} THEN 1
                             ELSE a.downsample.n_clusters)}

\* the engine of a _doFit call: trainSharpener has set stats_dict
FitEngine(a) ==
    IF a.export_stats
    THEN [method |-> a.method, downsample |-> a.downsample, regressorOpt |-> << >>,
          export_stats |-> TRUE, stats_dict |-> [N_train |-> a.n]]
    ELSE [method |-> a.method, downsample |-> a.downsample, regressorOpt |-> << >>,
          export_stats |-> FALSE]

Fit ==
    /\ "labels" \in DOMAIN calc
    /\ ~ calc.done
    /\ \E o \in FitOutcomes(calc.self, calc.n, calc.labels, calc.local) :
          calc' = [calc EXCEPT !.done = TRUE, !.out = o, !.self = o.fit.self]
    /\ UNCHANGED <<pc, self, init, files, train, applyLog, resid, grid>>

InitFit ==
    /\ NoEngine
    /\ grid = NoGrid
    /\ \E a \in FitInputs :
          calc = [done |-> FALSE, n |-> a.n, labels |-> a.labels, local |-> a.local,
                  self |-> FitEngine(a), out |-> None]

NextFit == Fit

SpecFit == InitFit /\ [][NextFit]_vars

-----------------------------------------------------------------------------
(* The residual correction of residualAnalysis, for one fine pixel:         *)
(* scene_HR is the disaggregated value, residual_HR the residual resampled  *)
(* to the fine grid (NaN where the coarse pixel is masked).                 *)

\* x**4
Pow4(x) == x * x * x * x

\* base**0.25 on floats: NaN for a NaN or negative base, and no exception;
\* the real fourth root is kept as the number it is the root of
Pow025(base) ==
    IF base = NaN THEN NaN
    ELSE IF base.value < 0 THEN NaN
    ELSE [root4 |-> base.value]

\* residual_HR + x on floats
AddResidual(residual_HR, x) ==
    IF residual_HR = NaN THEN NaN ELSE [value |-> residual_HR.value + x]

\* corrected, at one pixel
correctedPixel(disaggregatingTemperature, residual_HR, scene_HR) ==
    IF disaggregatingTemperature
    THEN Pow025(AddResidual(residual_HR, Pow4(scene_HR)))
    ELSE AddResidual(residual_HR, scene_HR)

\* residualAnalysis from the call of _calculateResidual to the corrected image
correctionStep(disaggregatingTemperature, doCorrection, residual_HR, scene_HR) ==
    IF doCorrection
    THEN correctedPixel(disaggregatingTemperature, residual_HR, scene_HR)
    ELSE None

CorrectionInputs ==
    [disaggregatingTemperature : BOOLEAN, doCorrection : BOOLEAN,
     scene_HR : 0..MaxKelvin,
     residual_HR : {NaN} \cup {[value |-> v] : v \in (0 - MaxResidual)..MaxResidual}]

Correct ==
    /\ "scene_HR" \in DOMAIN calc
    /\ ~ calc.done
    /\ calc' = [calc EXCEPT !.done = TRUE,
                            !.status = "returned",
                            !.correctedImage =
                                correctionStep(calc.disaggregatingTemperature, calc.doCorrection,
                                               calc.residual_HR, calc.scene_HR)]
    /\ UNCHANGED <<pc, self, init, files, train, applyLog, resid, grid>>

InitCorrection ==
    /\ NoEngine
    /\ grid = NoGrid
    /\ \E a \in CorrectionInputs :
          calc = [done |-> FALSE, status |-> "called", correctedImage |-> None,
                  disaggregatingTemperature |-> a.disaggregatingTemperature,
                  doCorrection |-> a.doCorrection,
                  scene_HR |-> a.scene_HR, residual_HR |-> a.residual_HR]

NextCorrection == Correct

SpecCorrection == InitCorrection /\ [][NextCorrection]_vars

-----------------------------------------------------------------------------
(* _doPredict on its own: one model, one raster, one chunk size *)

\* the rasters, the scalers of the model and the chunk sizes (0: no chunking)
PredictInputs ==
    [rows : 1..MaxRows, cols : 1..MaxRows, chunk_size : 0..MaxChunk,
     HR_scaler : {None, [StandardScaler |-> "HR"]},
     LR_scaler : {None, [StandardScaler |-> "LR"]}]

Predict ==
    /\ "chunk_size" \in DOMAIN calc
    /\ ~ calc.done
    /\ calc' = [calc EXCEPT
                  !.done = TRUE,
                  !.result = doPredictRaster(
                      [q \in (0..(calc.rows - 1)) \X (0..(calc.cols - 1)) |-> inData(q)],
                      calc.rows, calc.cols,
                      [reg |-> "reg", HR_scaler |-> calc.HR_scaler,
                       LR_scaler |-> calc.LR_scaler],
                      calc.chunk_size)]
    /\ UNCHANGED <<pc, self, init, files, train, applyLog, resid, grid>>

InitPredict ==
    /\ NoEngine
    /\ grid = NoGrid
    /\ \E a \in PredictInputs :
          calc = [done |-> FALSE, rows |-> a.rows, cols |-> a.cols,
                  chunk_size |-> a.chunk_size, HR_scaler |-> a.HR_scaler,
                  LR_scaler |-> a.LR_scaler, result |-> << >>]

NextPredict == Predict

SpecPredict == InitPredict /\ [][NextPredict]_vars

-----------------------------------------------------------------------------
(* The window partitioning on its own, over larger grids *)

Grids == [R : 1..MaxGrid, C : 1..MaxGrid, W : (-1)..MaxTile]

PartitionGrid ==
    /\ ~ grid.done
    /\ grid' = [R |-> grid.R, C |-> grid.C, W |-> grid.W, done |-> TRUE,
                windows |-> Partition(grid.R, grid.C, grid.W).windows,
                extents |-> Partition(grid.R, grid.C, grid.W).extents]
    /\ UNCHANGED <<pc, self, init, files, train, applyLog, resid, calc>>

InitWindows ==
    /\ NoEngine
    /\ calc = NoCalc
    /\ \E g \in Grids :
          grid = [R |-> g.R, C |-> g.C, W |-> g.W, done |-> FALSE,
                  windows |-> << >>, extents |-> << >>]

NextWindows == PartitionGrid

SpecWindows == InitWindows /\ [][NextWindows]_vars

-----------------------------------------------------------------------------
(* The claims *)

Applied(k) == k \in DOMAIN applyLog
Returned(k) == Applied(k) /\ applyLog[k].status = "returned"
EmptyWindows == {i \in DOMAIN train.goodData : train.goodData[i] = << >>}

\* C1: after one successful trainSharpener no applySharpener call changes a
\* stored model entry, and the second and every later call on the same
\* inputs returns, with the output of the first call.
C1_ApplyRepeatable ==
    (train.status = "returned" /\ applyLog # << >>) =>
        /\ self.reg = applyLog[1].regBefore
        /\ \A k \in DOMAIN applyLog :
              /\ applyLog[k].status = "returned"
              /\ applyLog[k].outImage = applyLog[1].outImage

\* C2: applySharpener on an engine on which trainSharpener has never
\* completed ends in an error: it never returns a raster.
C2_ApplyBeforeTrainingFails ==
    train.status # "returned" => \A k \in DOMAIN applyLog : ~ Returned(k)

\* C3 as stated: residualAnalysis on an engine on which trainSharpener has
\* never completed ends in an error, whatever doCorrection,
\* disaggregatingTemperature and export_stats are.
C3_ResidualBeforeTrainingFails ==
    train.status # "returned" => resid.status # "returned"

\* C3 as amended: residualAnalysis does not need a trained engine. On an
\* engine on which trainSharpener has never completed it ends in an error
\* exactly when export_stats is set and no trainSharpener call got as far as
\* creating the statistics record (it was never called, or it was called
\* with no file pairs); otherwise it returns the residual raster, and a
\* corrected raster exactly when doCorrection is set, in temperature mode
\* and out of it.
C3_ResidualBeforeTrainingNeedsStats ==
    (train.status # "returned" /\ resid.status # "never") =>
        /\ resid.status = "AttributeError" <=>
              (self.export_stats /\ train.status \in {"never", "NameError"})
        /\ resid.status # "AttributeError" => resid.status = "returned"
        /\ resid.status = "returned" =>
              /\ Len(resid.out) = 2
              /\ resid.out[1] # None
              /\ resid.out[2] # None <=> resid.doCorrection

C3_Witness ==
    /\ train.status = "never"
    /\ resid.status = "returned"
    /\ resid.doCorrection
    /\ self.disaggregatingTemperature

\* the coarse quality mask flags every pixel of every training scene bad
AllFlagged ==
    /\ pc = "ready"
    /\ self.useQuality_LR
    /\ Len(files) > 0
    /\ \A f \in DOMAIN files : files[f].layout = "flagged"

\* C4 as stated: when the quality mask flags every pixel bad, every window's
\* good-pixel mask is empty, training records a null global model, and a
\* following applySharpener call ends in an error.
C4_AllBadThenApplyFails ==
    (AllFlagged /\ train.status # "never") =>
        /\ train.status = "returned"
        /\ EmptyWindows = DOMAIN train.goodData
        /\ self.reg[Len(self.reg)] = None
        /\ \A k \in DOMAIN applyLog : ~ Returned(k)

\* C4 as amended: when the quality mask flags every pixel bad, every window's
\* good-pixel mask is empty, training records a null model for every window,
\* the global one included, and a following applySharpener call returns a
\* raster that is NaN at every pixel.
C4_AllBadThenApplyReturnsNaN ==
    (AllFlagged /\ train.status # "never") =>
        /\ train.status = "returned"
        /\ EmptyWindows = DOMAIN train.goodData
        /\ \A i \in DOMAIN self.reg : self.reg[i] = None
        /\ \A k \in DOMAIN applyLog :
              /\ Returned(k)
              /\ DOMAIN applyLog[k].outImage = RasterPixels(applyLog[k].highResFile)
              /\ \A q \in DOMAIN applyLog[k].outImage : applyLog[k].outImage[q] = NaN

C4_Witness ==
    /\ AllFlagged
    /\ train.status = "returned"
    /\ self.movingWindowSize > 0
    /\ Returned(1)

\* C5: after trainSharpener the model of a window is null exactly when the
\* window's sample set is empty, and a model that is not null was fitted on
\* the window's own samples; trainSharpener raises only for an empty file
\* list or for an unsupported method met at a window that has samples, never
\* because a window is empty.
C5_NullModelIffEmptyWindow ==
    /\ train.status = "returned" =>
          /\ DOMAIN self.reg = DOMAIN train.goodData
          /\ \A i \in DOMAIN train.goodData :
                IF train.goodData[i] = << >>
                THEN self.reg[i] = None
                ELSE /\ self.reg[i] # None
                     /\ self.reg[i].reg.samples = train.goodData[i]
    /\ train.status = "NameError" => Len(files) = 0
    /\ train.status = "TypeError" =>
          /\ self.method \notin Methods
          /\ EmptyWindows # DOMAIN train.goodData

C5_Witness ==
    /\ train.status = "returned"
    /\ \E i, j \in DOMAIN train.goodData :
          /\ i < j /\ j < Len(train.goodData)
          /\ train.goodData[i] = << >>
          /\ train.goodData[j] # << >>
          /\ self.reg[j] # None

\* C6: an unsupported method is reported as an error by trainSharpener,
\* before the window extents, the model list or the regressor options are
\* changed, also when every window has an empty sample set.
C6_UnsupportedMethodReportedFirst ==
    (pc = "ready" /\ Len(files) > 0 /\ self.method \notin Methods
        /\ train.status # "never") =>
        /\ train.status = "TypeError"
        /\ self.windowExtents = << >>
        /\ "reg" \notin DOMAIN self
        /\ self.regressorOpt = << >>

\* quality files are in use: the list is neither empty nor the single ""
QualityInUse == init.lowResQualityFiles \notin {<< >>, <<"">>}

\* C7: the constructor raises when the numbers of fine and coarse files
\* differ, or when quality files are in use and their number differs from
\* the number of coarse files; otherwise it succeeds; no training has run
\* on an engine whose construction raised.
C7_ConstructorChecksFileCounts ==
    init.status # "never" =>
        /\ init.status = "IOError" <=>
              \/ init.highResFiles # init.lowResFiles
              \/ QualityInUse /\ Len(init.lowResQualityFiles) # init.lowResFiles
        /\ init.status = "returned" <=> pc = "ready"
        /\ init.status = "IOError" =>
              /\ pc = "initFailed"
              /\ self = << >>
              /\ train.status = "never"

C7_Witness ==
    /\ init.status = "IOError"
    /\ init.highResFiles = init.lowResFiles
    /\ QualityInUse

\* ceil(a / b) for a >= 0 and b > 0: the least n with n * b >= a
CeilOf(a, b) == CHOOSE n \in 0..a : n * b >= a /\ \A m \in 0..(n - 1) : m * b < a

\* C8: for an R x C grid and a window size W > 0 the partitioning produces
\* ceil(R/W) * ceil(C/W) + 1 windows.
C8_WindowCount ==
    (grid.done /\ grid.W > 0) =>
        Len(grid.windows) = CeilOf(grid.R, grid.W) * CeilOf(grid.C, grid.W) + 1

C8_Witness ==
    /\ grid.done
    /\ grid.W > 1
    /\ grid.R % grid.W # 0
    /\ grid.C % grid.W # 0
    /\ grid.R > grid.W
    /\ Len(grid.windows) > 4

\* C9: for every grid and window size the last window is [0, R, 0, C] and
\* has no extent: there is one extent less than there are windows.
C9_GlobalWindowLast ==
    grid.done =>
        /\ Len(grid.windows) >= 1
        /\ grid.windows[Len(grid.windows)] = <<0, grid.R, 0, grid.C>>
        /\ Len(grid.extents) = Len(grid.windows) - 1

C9_Witness ==
    /\ grid.done
    /\ grid.W > 0
    /\ Len(grid.windows) > 2
    /\ grid.windows[1] # <<0, grid.R, 0, grid.C>>

\* C10: with a window size <= 0 and at least one good pixel, a completed
\* training leaves one window, one model that is not null and no extents,
\* and the applySharpener call that follows returns a raster with the rows
\* and columns of the fine raster that holds the global model's prediction
\* (NaN where the fine input is invalid).
C10_GlobalOnly ==
    (train.status = "returned" /\ self.movingWindowSize <= 0
        /\ train.goodData[Len(train.goodData)] # << >>) =>
        /\ Len(train.windows) = 1
        /\ Len(self.reg) = 1
        /\ self.reg[1] # None
        /\ self.windowExtents = << >>
        /\ Applied(1) =>
              /\ Returned(1)
              /\ DOMAIN applyLog[1].outImage = RasterPixels(HighResFile)
              /\ \A q \in RasterPixels(HighResFile) :
                    applyLog[1].outImage[q] =
                        IF nanInd(q) THEN NaN ELSE Predicted(1, inData(q))

C10_Witness ==
    /\ train.status = "returned"
    /\ self.movingWindowSize <= 0
    /\ Returned(1)
    /\ \E q \in DOMAIN applyLog[1].outImage : applyLog[1].outImage[q] # NaN

-----------------------------------------------------------------------------
(* Sample selection *)

\* the scene of the pass of the file loop that left the sample sets
LastScene == files[Len(files)]

\* the samples of window i, as a set of coarse pixels
SampleSet(i) == {train.goodData[i][k] : k \in DOMAIN train.goodData[i]}

\* the coarse pixels of window i
PixelsOf(i) ==
    {WindowPixels(train.windows[i])[k] : k \in DOMAIN WindowPixels(train.windows[i])}

\* C11: a coarse pixel of a window is in the window's sample set exactly when
\* its quality flag is good (or no quality mask is used), its coarse value is
\* not NaN, none of its aggregated fine means is NaN, and its CV is above 0
\* and below the threshold in force for the window.
C11_GoodPixelSelection ==
    (pc = "ready" /\ train.status = "returned") =>
        \A i \in DOMAIN train.windows : \A p \in PixelsOf(i) :
            p \in SampleSet(i) <=>
                /\ self.useQuality_LR => QualityFlagGood(LastScene, p[1], p[2])
                /\ ~ DataNaN(LastScene, p[1], p[2])
                /\ ~ ResMeanNaN(LastScene, p[1], p[2])
                /\ resCV(LastScene, p[1], p[2]) > 0
                /\ 100 * resCV(LastScene, p[1], p[2]) < train.thresholds[i]

C11_Witness ==
    /\ pc = "ready" /\ train.status = "returned"
    /\ self.useQuality_LR /\ ~ self.autoAdjustCvThreshold
    /\ LastScene.layout = "mixed"
    /\ \E i \in DOMAIN train.windows :
          /\ SampleSet(i) # {}
          /\ \E p \in PixelsOf(i) \ SampleSet(i) : QualityFlagGood(LastScene, p[1], p[2])
          /\ \E p \in PixelsOf(i) \ SampleSet(i) : ~ QualityFlagGood(LastScene, p[1], p[2])

\* C12: a coarse pixel whose CV is undefined (NaN, replaced by the sentinel
\* 1000) is in no sample set, under a fixed threshold of any size and under
\* an automatically derived one.
C12_UndefinedCvNeverSelected ==
    (pc = "ready" /\ train.status = "returned") =>
        \A i \in DOMAIN train.windows : \A p \in SampleSet(i) :
            ~ CvNaN(LastScene, p[1], p[2])

\* C13: every weight stored in a window's sample set is 1/CV of its pixel,
\* and is strictly positive and finite (a fraction 1/d with d > 0).
C13_WeightsInverseCv ==
    (pc = "ready" /\ train.status = "returned") =>
        \A i \in DOMAIN train.windows :
            /\ DOMAIN train.weight[i] = DOMAIN train.goodData[i]
            /\ \A k \in DOMAIN train.weight[i] :
                  /\ train.weight[i][k].num = 1
                  /\ train.weight[i][k].den =
                        resCV(LastScene, train.goodData[i][k][1], train.goodData[i][k][2])
                  /\ train.weight[i][k].den > 0

C13_Witness ==
    /\ pc = "ready" /\ train.status = "returned"
    /\ LastScene.layout = "flat"
    /\ \E i \in DOMAIN train.windows :
          /\ train.weight[i] # << >>
          /\ Len(train.weight[i]) < Len(WindowPixels(train.windows[i]))

\* the eligible pixels of window i: good quality and 0 < CV < 1000
Eligible(i) ==
    {p \in PixelsOf(i) : /\ qualityPix(self, LastScene, p[1], p[2])
                         /\ resCV(LastScene, p[1], p[2]) > 0
                         /\ resCV(LastScene, p[1], p[2]) < CvSentinel}

\* C14: under an automatically derived threshold, in a window with at least
\* one eligible pixel, at least 80% of the eligible CVs are <= the threshold
\* and 80% of the eligible pixels are below it and retained as samples, also
\* with a single eligible pixel or equal CVs.
C14_AutoThresholdKeepsPercentile ==
    (pc = "ready" /\ train.status = "returned" /\ self.autoAdjustCvThreshold) =>
        \A i \in DOMAIN train.windows :
            Eligible(i) # {} =>
                /\ 100 * Cardinality({p \in Eligible(i) :
                        100 * resCV(LastScene, p[1], p[2]) <= train.thresholds[i]})
                      >= precentileThreshold * Cardinality(Eligible(i))
                /\ 100 * Cardinality(SampleSet(i))
                      >= precentileThreshold * Cardinality(Eligible(i))

-----------------------------------------------------------------------------
(* Combination of the local and the global predictions *)

\* the local accumulator of apply call k covers no pixel
NoLocalCoverage(k) ==
    \A r \in RasterPixels(applyLog[k].highResFile) : applyLog[k].outWindowData[r] = NaN

\* both residuals of apply call k at pixel q are numbers other than zero
ResidualsUsable(k, q) ==
    /\ calculateResidual(applyLog[k].outWindowData, "windowed", q) # NaN
    /\ calculateResidual(applyLog[k].outFullData, "full", q) # NaN
    /\ calculateResidual(applyLog[k].outWindowData, "windowed", q).residual # 0
    /\ calculateResidual(applyLog[k].outFullData, "full", q).residual # 0

\* C15: the output of applySharpener is the global prediction when the local
\* accumulator covers no pixel, with or without a coarse image; else the
\* local accumulator when no coarse image is given; else local*ww + global*fw
\* with ww = (1/rl)^2 / ((1/rl)^2 + (1/rg)^2) and fw = 1 - ww, so that
\* ww + fw = 1 where both residuals are numbers other than zero.
C15_CombinationCases ==
    \A k \in DOMAIN applyLog : Returned(k) =>
        \A q \in RasterPixels(applyLog[k].highResFile) : ~ nanInd(q) =>
            IF NoLocalCoverage(k)
            THEN applyLog[k].outImage[q] = applyLog[k].outFullData[q]
            ELSE IF ~ applyLog[k].lowResGiven
            THEN applyLog[k].outImage[q] = applyLog[k].outWindowData[q]
            ELSE IF ResidualsUsable(k, q)
            THEN LET rl == calculateResidual(applyLog[k].outWindowData, "windowed", q).residual
                     rg == calculateResidual(applyLog[k].outFullData, "full", q).residual
                     out == applyLog[k].outImage[q]
                 IN /\ out # NaN
                    /\ out.windowed = applyLog[k].outWindowData[q]
                    /\ out.full = applyLog[k].outFullData[q]
                    \* (1/rl)^2 / ((1/rl)^2 + (1/rg)^2) = rg^2 / (rg^2 + rl^2)
                    /\ out.ww.num * (rg * rg + rl * rl) = out.ww.den * (rg * rg)
                    /\ out.fw.den = out.ww.den
                    /\ out.ww.num + out.fw.num = out.ww.den
            ELSE \/ applyLog[k].outImage[q] = NaN
                 \/ /\ applyLog[k].outImage[q].ww.num = 0
                    /\ applyLog[k].outImage[q].fw.num = applyLog[k].outImage[q].fw.den

C15_Witness ==
    /\ Returned(1) /\ applyLog[1].lowResGiven /\ ~ NoLocalCoverage(1)
    /\ \E q \in RasterPixels(applyLog[1].highResFile) :
          /\ ~ nanInd(q) /\ ResidualsUsable(1, q)
          /\ applyLog[1].outImage[q].ww.num > 0
          /\ applyLog[1].outImage[q].fw.num > 0

\* C16: in every raster applySharpener returns, in each of the three cases
\* of the combination, a fine pixel that is no-data in some input band is
\* NaN: the prediction made on its zero-filled value is not in the output.
C16_InvalidFootprintIsNaN ==
    \A k \in DOMAIN applyLog : Returned(k) =>
        \A q \in RasterPixels(applyLog[k].highResFile) :
            nanInd(q) => applyLog[k].outImage[q] = NaN

C16_Witness ==
    /\ Returned(1) /\ applyLog[1].lowResGiven /\ ~ NoLocalCoverage(1)
    /\ \E q \in RasterPixels(applyLog[1].highResFile) :
          /\ nanInd(q)
          /\ applyLog[1].outWindowData[q] # NaN
          /\ applyLog[1].outFullData[q] # NaN
          /\ applyLog[1].outFullData[q].x = 0
          /\ applyLog[1].outImage[q] = NaN

-----------------------------------------------------------------------------
(* Prediction by chunks *)

\* the raster handed to _doPredict in calc
CalcRaster == [q \in (0..(calc.rows - 1)) \X (0..(calc.cols - 1)) |-> inData(q)]

\* the model handed to _doPredict in calc
CalcModel == [reg |-> "reg", HR_scaler |-> calc.HR_scaler, LR_scaler |-> calc.LR_scaler]

\* C17: for one model and one raster of n pixels _doPredict returns, for
\* every positive chunk size, what it returns without chunking: the chunk
\* ranges come in increasing order, hold at most chunk_size samples each, do
\* not overlap and cover exactly [0, n), every sample is predicted once and
\* written at its own position, and the output has the input's rows and
\* columns.
C17_ChunkingPreservesOutput ==
    ("chunk_size" \in DOMAIN calc /\ calc.done /\ calc.chunk_size > 0) =>
        LET n == calc.rows * calc.cols
            last == NumChunks(n, calc.chunk_size) - 1
        IN /\ calc.result.out = doPredictRaster(CalcRaster, calc.rows, calc.cols,
                                                CalcModel, 0).out
           /\ DOMAIN calc.result.out = (0..(calc.rows - 1)) \X (0..(calc.cols - 1))
           /\ \A k \in 1..n : calc.result.writers[k] = <<(k - 1) \div calc.chunk_size>>
           /\ ChunkRange(0, calc.chunk_size, n)[1] = 0
           /\ ChunkRange(last, calc.chunk_size, n)[2] = n
           /\ \A c \in 0..last :
                 /\ ChunkRange(c, calc.chunk_size, n)[1] < ChunkRange(c, calc.chunk_size, n)[2]
                 /\ ChunkRange(c, calc.chunk_size, n)[2] - ChunkRange(c, calc.chunk_size, n)[1]
                       <= calc.chunk_size
                 /\ c > 0 => ChunkRange(c, calc.chunk_size, n)[1]
                                = ChunkRange(c - 1, calc.chunk_size, n)[2]

C17_Witness ==
    /\ "chunk_size" \in DOMAIN calc /\ calc.done
    /\ calc.chunk_size > 1
    /\ (calc.rows * calc.cols) % calc.chunk_size # 0
    /\ NumChunks(calc.rows * calc.cols, calc.chunk_size) > 2
    /\ calc.HR_scaler # None /\ calc.LR_scaler # None
    /\ calc.result.out[<<calc.rows - 1, calc.cols - 1>>] # NaN

-----------------------------------------------------------------------------
(* Per-leaf linear regression *)

\* C18: for a sample the fitted tree routes to leaf L, the refined prediction
\* lies in [min_L - r*(max_L - min_L), max_L + r*(max_L - min_L)], with
\* min_L and max_L the extrema of the training targets of leaf L.
C18_LeafPredictionBounded ==
    ("leaves" \in DOMAIN calc /\ calc.done) =>
        LET L == calc.leaves[calc.leaf]
        IN /\ calc.y4 >= 4 * L.min - calc.ratio4 * (L.max - L.min)
           /\ calc.y4 <= 4 * L.max + calc.ratio4 * (L.max - L.min)

\* C18, for trees whose leaves have different values (every stored key is
\* then one leaf of the tree): the refined prediction lies in the bounds
\* of the leaf the sample was routed to.
C18_DistinctLeavesBounded ==
    ("leaves" \in DOMAIN calc /\ calc.done /\ calc.leaves[1].value # calc.leaves[2].value) =>
        LET L == calc.leaves[calc.leaf]
        IN /\ calc.y4 >= 4 * L.min - calc.ratio4 * (L.max - L.min)
           /\ calc.y4 <= 4 * L.max + calc.ratio4 * (L.max - L.min)

-----------------------------------------------------------------------------
(* Residual correction *)

\* C19: with correction enabled, in temperature mode a pixel with
\* predicted^4 + residual < 0 is flagged (an error, or a corrected value
\* that is a flag), never returned as NaN; where predicted^4 + residual >= 0
\* the corrected value is (residual + predicted^4)^0.25; in non-temperature
\* mode it is residual + predicted.
C19_CorrectionFlagsNegativeBase ==
    ("scene_HR" \in DOMAIN calc /\ calc.done /\ calc.doCorrection /\ calc.residual_HR # NaN) =>
        LET base == calc.residual_HR.value + Pow4(calc.scene_HR)
        IN IF calc.disaggregatingTemperature
           THEN /\ base < 0 => (calc.status # "returned" \/ calc.correctedImage # NaN)
                /\ base >= 0 => calc.correctedImage = [root4 |-> base]
           ELSE calc.correctedImage = [value |-> calc.residual_HR.value + calc.scene_HR]

\* C19, the pixels with predicted^4 + residual >= 0 and the non-temperature
\* mode only: the corrected value is as the claim gives it.
C19_CorrectionWhereDefined ==
    ("scene_HR" \in DOMAIN calc /\ calc.done /\ calc.doCorrection /\ calc.residual_HR # NaN) =>
        LET base == calc.residual_HR.value + Pow4(calc.scene_HR)
        IN IF calc.disaggregatingTemperature
           THEN base >= 0 => calc.correctedImage = [root4 |-> base]
           ELSE calc.correctedImage = [value |-> calc.residual_HR.value + calc.scene_HR]

-----------------------------------------------------------------------------
(* Training on several file pairs *)

\* the number of good pixels of window i in the file pairs f..Len(files),
\* each pair selected as its pass of the loop selects it
RECURSIVE GoodPixelsFrom(_, _)
GoodPixelsFrom(i, f) ==
    IF f > Len(files) THEN 0
    ELSE Len(FileStep(self, files[f]).goodData[i]) + GoodPixelsFrom(i, f + 1)

\* C20: with several file pairs every pair is used for training: the final
\* sample set of each window holds the good pixels of all pairs, not only
\* those of the last pair.
C20_AllPairsTrain ==
    (pc = "ready" /\ train.status = "returned") =>
        \A i \in DOMAIN train.goodData :
            Len(train.goodData[i]) = GoodPixelsFrom(i, 1)

\* C20, as the loop leaves it: the final sample set of each window holds the
\* good pixels of the last pair only.
C20_LastPairOnly ==
    (pc = "ready" /\ train.status = "returned") =>
        \A i \in DOMAIN train.goodData :
            train.goodData[i] = FileStep(self, LastScene).goodData[i]

-----------------------------------------------------------------------------
(* Options of the fits *)

\* C21: for each tree-structured backend (dt, rf, xgb) every local window is
\* fitted with 10 maximum leaf nodes and the global window with 30, and with
\* 10 minimum samples per leaf for both, whatever was fitted before.
C21_TreeFitOptions ==
    (train.status = "returned" /\ self.method \in {"dt", "rf", "xgb"}) =>
        \A i \in DOMAIN self.reg :
            self.reg[i] # None =>
                /\ DOMAIN self.reg[i].reg.opt = {"max_leaf_nodes", "min_samples_leaf"}
                /\ self.reg[i].reg.opt.max_leaf_nodes = (IF i < Len(self.reg) THEN 10 ELSE 30)
                /\ self.reg[i].reg.opt.min_samples_leaf = 10

\* C21, for the backends dt and rf only.
C21_TreeFitOptionsDtRf ==
    (train.status = "returned" /\ self.method \in {"dt", "rf"}) =>
        \A i \in DOMAIN self.reg :
            self.reg[i] # None =>
                /\ DOMAIN self.reg[i].reg.opt = {"max_leaf_nodes", "min_samples_leaf"}
                /\ self.reg[i].reg.opt.max_leaf_nodes = (IF i < Len(self.reg) THEN 10 ELSE 30)
                /\ self.reg[i].reg.opt.min_samples_leaf = 10

-----------------------------------------------------------------------------
(* Order of the fits *)

\* C22: training fits the windows in sequence order, the global window
\* last; exactly the last window is fitted as non-local and every other one
\* as local; afterwards the model list has one entry per window, model i
\* belongs to local extent i and the last model is the global one.
C22_FitOrder ==
    train.status = "returned" =>
        /\ \A k \in DOMAIN train.fitted :
              /\ train.fitted[k].local <=> train.fitted[k].window < Len(train.windows)
              /\ k > 1 => train.fitted[k - 1].window < train.fitted[k].window
        /\ {train.fitted[k].window : k \in DOMAIN train.fitted}
              = DOMAIN train.goodData \ EmptyWindows
        /\ Len(self.reg) = Len(train.windows)
        /\ Len(self.reg) = Len(self.windowExtents) + 1
        /\ self.windowExtents = train.extents
        /\ \A i \in DOMAIN self.reg :
              self.reg[i] # None => self.reg[i].reg.samples = train.goodData[i]
        /\ \A k \in DOMAIN applyLog :
              Returned(k) =>
                  \A q \in RasterPixels(applyLog[k].highResFile) :
                      /\ applyLog[k].outFullData[q] # NaN =>
                            applyLog[k].outFullData[q] = Predicted(Len(self.reg), inData(q))
                      /\ applyLog[k].outWindowData[q] # NaN =>
                            \E i \in DOMAIN self.windowExtents :
                                /\ InRect(q, ExtentRect(self.windowExtents[i],
                                                        applyLog[k].highResFile))
                                /\ applyLog[k].outWindowData[q] = Predicted(i, inData(q))

C22_Witness ==
    /\ train.status = "returned"
    /\ Len(train.fitted) >= 3
    /\ train.fitted[Len(train.fitted)].window = Len(train.windows)
    /\ Returned(1)
    /\ \E q \in RasterPixels(applyLog[1].highResFile) : applyLog[1].outWindowData[q] # NaN

-----------------------------------------------------------------------------
(* Downsampling *)

\* C23: the downsampling stage is applied only when fitting the global
\* window, never a local one; applied with k clusters it returns features,
\* targets and weights with the same row count k*n_min, taken at the same
\* row indices, so every returned row is the (feature, target, weight)
\* triple of one original sample.
C23_DownsamplingGlobalOnly ==
    ("labels" \in DOMAIN calc /\ calc.done) =>
        /\ calc.out.downsampled => ~ calc.local
        /\ ~ calc.out.downsampled =>
              /\ calc.out.goodData_HR = FeatureRows(calc.n)
              /\ calc.out.goodData_LR = TargetRows(calc.n)
              /\ calc.out.weight = WeightRows(calc.n)
        /\ (calc.out.downsampled /\ calc.out.status = "returned") =>
              /\ Len(calc.out.goodData_HR)
                    = calc.self.downsample.n_clusters * ClusterMin(calc.labels)
              /\ Len(calc.out.goodData_LR) = Len(calc.out.goodData_HR)
              /\ Len(calc.out.weight) = Len(calc.out.goodData_HR)
              /\ \A r \in DOMAIN calc.out.goodData_HR :
                    \E j \in 1..calc.n :
                        /\ calc.out.goodData_HR[r] = FeatureRows(calc.n)[j]
                        /\ calc.out.goodData_LR[r] = TargetRows(calc.n)[j]
                        /\ calc.out.weight[r] = WeightRows(calc.n)[j]
              /\ ~ calc.out.fit.raises => calc.out.fit.model.reg.samples = calc.out.goodData_LR

C23_Witness ==
    /\ "labels" \in DOMAIN calc
    /\ calc.done
    /\ calc.out.downsampled
    /\ calc.out.status = "returned"
    /\ calc.self.downsample = [n_clusters |-> 2]
    /\ Len(calc.out.goodData_HR) = 2
    /\ calc.n = 3
    /\ calc.out.goodData_LR[1] # TargetRows(calc.n)[1]

-----------------------------------------------------------------------------
(* Bounds of the sampling windows *)

\* the number of the window of tile (y, x) in the window sequence
TileIndex(y, x) == y * CeilOf(grid.C, grid.W) + x + 1

\* k is the integer part of the smaller (least) or larger (~ least) of a/4
\* and b/4, for a or b >= 0
IntQuarter(k, a, b, least) ==
    IF least
    THEN 4 * k <= Min(a, b) /\ Min(a, b) < 4 * (k + 1)
    ELSE 4 * k <= Max(a, b) /\ Max(a, b) < 4 * (k + 1)

\* C24: for a window size W >= 1 and every tile (y, x) the sampling window
\* is the tile [y*W, (y+1)*W) x [x*W, (x+1)*W) extended by 0.25*W on each
\* side and clamped to the grid (bounds cut to integers), so that
\* 0 <= rowStart < rowEnd <= R, 0 <= colStart < colEnd <= C and the window
\* holds every grid pixel of its tile; the recorded extent is that of the
\* tile without extension; the tiles are disjoint and cover the grid.
C24_SamplingWindowBounds ==
    (grid.done /\ grid.W >= 1) =>
        /\ \A y \in 0..(CeilOf(grid.R, grid.W) - 1) :
           \A x \in 0..(CeilOf(grid.C, grid.W) - 1) :
              LET w == grid.windows[TileIndex(y, x)]
              IN /\ IntQuarter(w[1], 4 * y * grid.W - grid.W, 0, FALSE)
                 /\ IntQuarter(w[2], 4 * (y + 1) * grid.W + grid.W, 4 * grid.R, TRUE)
                 /\ IntQuarter(w[3], 4 * x * grid.W - grid.W, 0, FALSE)
                 /\ IntQuarter(w[4], 4 * (x + 1) * grid.W + grid.W, 4 * grid.C, TRUE)
                 /\ 0 <= w[1] /\ w[1] < w[2] /\ w[2] <= grid.R
                 /\ 0 <= w[3] /\ w[3] < w[4] /\ w[4] <= grid.C
                 /\ \A r \in 0..(grid.R - 1) : \A c \in 0..(grid.C - 1) :
                       (r \div grid.W = y /\ c \div grid.W = x) =>
                           (w[1] <= r /\ r < w[2] /\ w[3] <= c /\ c < w[4])
                 /\ grid.extents[TileIndex(y, x)] =
                       <<<<gt_LR.x0 + gt_LR.res * x * grid.W,
                           gt_LR.y0 + gt_LR.res * y * grid.W>>,
                         <<gt_LR.x0 + gt_LR.res * (x + 1) * grid.W,
                           gt_LR.y0 + gt_LR.res * (y + 1) * grid.W>>>>
        /\ \A r \in 0..(grid.R - 1) : \A c \in 0..(grid.C - 1) :
              /\ TileIndex(r \div grid.W, c \div grid.W) \in DOMAIN grid.extents
              /\ \A i \in DOMAIN grid.extents :
                    (/\ grid.extents[i][1][1] <= gt_LR.x0 + gt_LR.res * c
                     /\ gt_LR.x0 + gt_LR.res * c < grid.extents[i][2][1]
                     /\ grid.extents[i][1][2] <= gt_LR.y0 + gt_LR.res * r
                     /\ gt_LR.y0 + gt_LR.res * r < grid.extents[i][2][2])
                    <=> i = TileIndex(r \div grid.W, c \div grid.W)

C24_Witness ==
    /\ grid.done
    /\ grid.W = MaxTile
    /\ grid.R > grid.W
    /\ grid.C > grid.W
    /\ grid.windows[1][2] > grid.W
    /\ grid.windows[2][3] < grid.W
    /\ grid.windows[2][3] > 0

-----------------------------------------------------------------------------
(* The local accumulator *)

\* fine pixel q = <<row, column>> lies in the projected extent
InExtent(q, extent) ==
    /\ extent[1][1] <= gt_HR.x0 + gt_HR.res * q[2]
    /\ gt_HR.x0 + gt_HR.res * q[2] < extent[2][1]
    /\ extent[1][2] <= gt_HR.y0 + gt_HR.res * q[1]
    /\ gt_HR.y0 + gt_HR.res * q[1] < extent[2][2]

\* the local windows that had a model when apply call k began
ModelledWindows(k) ==
    {i \in DOMAIN self.windowExtents : applyLog[k].regBefore[i] # None}

\* C25: applySharpener writes the local accumulator only inside the fine
\* rectangle of a local window that has a model (its extent mapped through
\* the fine geotransform, within the raster); every other pixel, the whole
\* tile of a window with a null model included, stays NaN.
C25_AccumulatorFrame ==
    \A k \in DOMAIN applyLog : Returned(k) =>
        \A q \in RasterPixels(applyLog[k].highResFile) :
            IF \E i \in ModelledWindows(k) : InExtent(q, self.windowExtents[i])
            THEN \E i \in ModelledWindows(k) :
                    /\ InExtent(q, self.windowExtents[i])
                    /\ applyLog[k].outWindowData[q] = Predicted(i, inData(q))
            ELSE applyLog[k].outWindowData[q] = NaN

C25_Witness ==
    /\ Returned(1)
    /\ \E i, j \in DOMAIN self.windowExtents :
          /\ applyLog[1].regBefore[i] = None
          /\ applyLog[1].regBefore[j] # None
          /\ \E q \in RasterPixels(applyLog[1].highResFile) :
                /\ InExtent(q, self.windowExtents[i])
                /\ applyLog[1].outWindowData[q] = NaN
          /\ \E q \in RasterPixels(applyLog[1].highResFile) :
                /\ InExtent(q, self.windowExtents[j])
                /\ applyLog[1].outWindowData[q] # NaN

-----------------------------------------------------------------------------
(* The threshold in force *)

\* the CVs of the eligible pixels of window i, in pixel order
EligibleCvs(i) ==
    LET g == SelectSeq(WindowPixels(train.windows[i]), LAMBDA p : p \in Eligible(i))
    IN [k \in DOMAIN g |-> resCV(LastScene, g[k][1], g[k][2])]

\* the thresholds training applied are those of the text of C26
ThresholdsOwn ==
    (pc = "ready" /\ train.status = "returned") =>
        \A i \in DOMAIN train.windows :
            IF self.autoAdjustCvThreshold
            THEN train.thresholds[i] =
                    (IF Eligible(i) = {} THEN 0
                     ELSE Percentile100(EligibleCvs(i), precentileThreshold))
            ELSE train.thresholds[i] = self.cvHomogeneityThreshold

\* C26: with auto-thresholding the threshold applied to a window is a
\* function of the window's own eligible CVs (0 when it has none), never the
\* value a window processed before or an earlier training call left; with a
\* configured positive threshold training leaves the engine's threshold as
\* it is and applies that value to every window.
C26_ThresholdPerWindow ==
    /\ []ThresholdsOwn
    /\ [][(pc = "ready" /\ ~ self.autoAdjustCvThreshold)
             => self'.cvHomogeneityThreshold = self.cvHomogeneityThreshold]_vars

C26_Witness ==
    /\ pc = "ready"
    /\ train.status = "returned"
    /\ self.autoAdjustCvThreshold
    /\ Len(files) = 2
    /\ Len(train.windows) > 1
    /\ FileStep(self, files[1]).self.cvHomogeneityThreshold > 0
    /\ Eligible(1) = {}
    /\ train.thresholds[1] = 0

-----------------------------------------------------------------------------
(* Refinement per leaf *)

\* C27: in the refined predict each sample is refined exactly once, by the
\* linear model and the bounds of the leaf the tree routed it to; a value
\* written for one leaf is never matched against another leaf's key and
\* overwritten; and after fit the stored leaf table holds exactly the leaves
\* of the current fit.
C27_RefinedOnceByOwnLeaf ==
    ("leaves" \in DOMAIN calc /\ calc.done) =>
        /\ calc.applied = <<calc.leaves[calc.leaf].value>>
        /\ {calc.keys[k] : k \in DOMAIN calc.keys}
              = {calc.leaves[i].value : i \in DOMAIN calc.leaves}

\* C27, on an object fitted once: each sample is refined exactly once, by
\* the key of its own leaf.
C27_FirstFitRefinedOnce ==
    ("leaves" \in DOMAIN calc /\ calc.done /\ calc.previous = << >>) =>
        calc.applied = <<calc.leaves[calc.leaf].value>>

-----------------------------------------------------------------------------
(* The blended output *)

\* apply call k returned from the blended case: some pixel has a local
\* value and a coarse image was given
Blended(k) == Returned(k) /\ applyLog[k].lowResGiven /\ ~ NoLocalCoverage(k)

\* C28, as stated: in the blended case a fine pixel that no local model
\* covers is NaN in the output even where the global model predicted a
\* number; the output is a number only at pixels where the local value, the
\* global value and both residuals are numbers and the residuals are not 0.
C28_BlendFiniteOnlyWithBothResiduals ==
    \A k \in DOMAIN applyLog : Blended(k) =>
        \A q \in RasterPixels(applyLog[k].highResFile) :
            /\ applyLog[k].outWindowData[q] = NaN => applyLog[k].outImage[q] = NaN
            /\ applyLog[k].outImage[q] # NaN =>
                  /\ applyLog[k].outWindowData[q] # NaN
                  /\ applyLog[k].outFullData[q] # NaN
                  /\ ResidualsUsable(k, q)

\* C28, amended: in the blended case a fine pixel that no local model
\* covers is NaN in the output even where the global model predicted a
\* number; the output is a number only at valid pixels where the local and
\* the global value are numbers, the local residual is a number other than
\* 0 and the global residual is a number; where the global residual is 0
\* the weights are 0 and 1.
C28_BlendFiniteOnlyWithLocalResidual ==
    \A k \in DOMAIN applyLog : Blended(k) =>
        \A q \in RasterPixels(applyLog[k].highResFile) :
            /\ applyLog[k].outWindowData[q] = NaN => applyLog[k].outImage[q] = NaN
            /\ applyLog[k].outImage[q] # NaN =>
                  /\ ~ nanInd(q)
                  /\ applyLog[k].outWindowData[q] # NaN
                  /\ applyLog[k].outFullData[q] # NaN
                  /\ calculateResidual(applyLog[k].outWindowData, "windowed", q) # NaN
                  /\ calculateResidual(applyLog[k].outWindowData, "windowed", q).residual # 0
                  /\ calculateResidual(applyLog[k].outFullData, "full", q) # NaN
                  /\ calculateResidual(applyLog[k].outFullData, "full", q).residual = 0 =>
                        /\ applyLog[k].outImage[q].ww.num = 0
                        /\ applyLog[k].outImage[q].fw.num = applyLog[k].outImage[q].fw.den

C28_Witness ==
    /\ Blended(1)
    /\ \E q \in RasterPixels(applyLog[1].highResFile) :
          /\ ~ nanInd(q)
          /\ applyLog[1].outWindowData[q] = NaN
          /\ applyLog[1].outFullData[q] # NaN
          /\ applyLog[1].outImage[q] = NaN
    /\ \E q \in RasterPixels(applyLog[1].highResFile) :
          /\ applyLog[1].outImage[q] # NaN
          /\ calculateResidual(applyLog[1].outFullData, "full", q).residual = 0

====
